---- MODULE Spec2Model ----
(***************************************************************************)
(* A model of src/main.py: the batch orchestrator AutomationBot.           *)
(* run_automation, the per-record sequence process_ticket_creation, the    *)
(* filter-result validator, the response poll and the page-side network    *)
(* hook.  The browser is the environment: every locate, click, dropdown    *)
(* and script call has its outcome chosen nondeterministically.            *)
(***************************************************************************)
EXTENDS Integers, Sequences, FiniteSets, TLC

(***************************************************************************)
(* Bounds of the model and constants of the program.                       *)
(***************************************************************************)
MaxLines == 3          \* lines of the daily input file
MaxItems == 2          \* items of a work list handed to the item loop directly
MaxPolls == 2          \* polls of the response slot before the deadline
MaxOptions == 2        \* options a dropdown shows after the target was typed
MaxInjects == 3        \* calls of inject_network_listener within one page load

MAX_RETRIES == 3       \* Config.MAX_RETRIES default
FILTER_ATTEMPTS == 3   \* range(3) of the filter loop
VALIDATE_ATTEMPTS == 3 \* max_attempts of validate_filter_result
HTTP_OK == 200         \* the status code check_ticket_creation_status accepts
DROPDOWN_RETRIES == 3  \* Config.DROPDOWN_RETRIES default
CLICK_ATTEMPTS == 3    \* max_attempts of safe_click
LOGIN_ATTEMPTS == 3    \* for attempt in range(3) of login

(***************************************************************************)
(* Text.  A text is a sequence of characters; " " and "\n" are whitespace. *)
(***************************************************************************)
A1 == <<"A", "1">>
A2 == <<"A", "2">>
A10 == <<"A", "1", "0">>
Codes == {A1, A2}

IsSpace(c) == c \in {" ", "\n"}

RECURSIVE LStrip(_)
LStrip(s) == IF s # <<>> /\ IsSpace(Head(s)) THEN LStrip(Tail(s)) ELSE s

RECURSIVE RStrip(_)
RStrip(s) ==
    IF s # <<>> /\ IsSpace(s[Len(s)]) THEN RStrip(SubSeq(s, 1, Len(s) - 1)) ELSE s

\* str.strip()
Strip(s) == RStrip(LStrip(s))

\* the lines a daily input file is made of
LineTexts ==
    { A1 \o <<"\n">>, A2 \o <<"\n">>, <<" ">> \o A1 \o <<" ", "\n">>,
      <<"\n">>, <<"#", "A", "2", "\n">>, <<" ", "#", "A", "1", "\n">> }

RECURSIVE SeqsUpTo(_, _)
SeqsUpTo(S, n) ==
    IF n = 0 THEN {<<>>}
    ELSE LET shorter == SeqsUpTo(S, n - 1)
         IN  shorter \cup {Append(q, x) : q \in {r \in shorter : Len(r) = n - 1}, x \in S}

\* the loop without the test against seen_codes
RECURSIVE ReadLines_NoDedup(_, _, _)
ReadLines_NoDedup(lines, seen_codes, kode_dp_list) ==
    IF lines = <<>> THEN kode_dp_list
    ELSE LET line == Strip(Head(lines))
         IN  IF line = <<>> \/ Head(line) = "#"
             THEN ReadLines_NoDedup(Tail(lines), seen_codes, kode_dp_list)
             ELSE ReadLines_NoDedup(Tail(lines), seen_codes \cup {line},
                                    Append(kode_dp_list, line))

\* DataManager.read_daily_input: the loop over the lines of the file
RECURSIVE ReadLines(_, _, _)
ReadLines(lines, seen_codes, kode_dp_list) ==
    IF lines = <<>> THEN kode_dp_list
    ELSE LET line == Strip(Head(lines))
         IN  IF line = <<>> \/ Head(line) = "#" \/ line \in seen_codes
             THEN ReadLines(Tail(lines), seen_codes, kode_dp_list)
             ELSE ReadLines(Tail(lines), seen_codes \cup {line}, Append(kode_dp_list, line))

read_daily_input(file) == ReadLines(file, {}, <<>>)

SeqToSet(q) == {q[i] : i \in 1..Len(q)}

(***************************************************************************)
(* State.                                                                  *)
(***************************************************************************)
VARIABLES
    master_file,       \* record codes of the valid rows of the reference file
    input_file,        \* lines of the daily input file
    master_data,       \* keys of the loaded reference table
    kode_dp_list,      \* the work list
    processed_dps,     \* AutomationBot.processed_dps
    stats,             \* AutomationBot.stats: successful, failed, skipped
    pc,                \* position of the main thread
    index,             \* enumerate index of the item loop (1-based, 0 before it)
    attempt,           \* loop variable of the retry loop
    filter_attempt,    \* loop variable of the filter loop
    val_attempt,       \* loop variable of validate_filter_result
    validation_status, \* status returned by validate_filter_result
    validation_passed, \* local flag of process_ticket_creation
    result,            \* value returned by process_ticket_creation
    final_status,      \* local of run_automation
    check_status,      \* how check_ticket_creation_status ended in this attempt
    poll_log,          \* values read from the slot by this attempt's polls
    ticket_creation_response, \* window.ticket_creation_response
    xhr_listener_injected,    \* window.xhr_listener_injected of the loaded page
    send_wraps,        \* how many times XMLHttpRequest.prototype.send of the loaded
                       \* page has been wrapped
    inject_calls,      \* calls of inject_network_listener since the page was loaded
    inflight,          \* creation requests sent and not yet answered
    probe,             \* what the page showed to the validator's last attempt
    cell_reads,        \* result cells read by this call of the validator
    failed_substep,    \* the last locate, click or dropdown that failed in this attempt
    cleared,           \* this attempt has set the slot to null (line 481)
    slot_age,          \* when the value in the slot was stored: "none" (the slot
                       \* is null), "new" (after this attempt's clear) or "old"
    log,               \* events of the current record
    stats_before,      \* stats when the current record was started
    no_data_seen,      \* the validator returned NO_DATA for the current record: "no",
                       \* "attempt" (in the current attempt) or "record" (in an earlier one)
    unconfirmed,       \* an attempt at the current record clicked the final
                       \* confirmation and ended without having read a response
    signalled,         \* index of the item during which a signal ended the run, -1 if none
    report_generated,  \* generate_final_report was called
    exit_code,         \* process exit status, -1 while running
    setup,             \* the steps before the item loop: "running", "ok", or the
                       \* step that failed
    login_call,        \* one call of login: the loop variable attempt, how each
                       \* attempt ended, whether the retry delay was slept before
                       \* the next one, what the last landmark wait saw, the value returned
    click,             \* one call of safe_click: its arguments, the loop variable
                       \* attempt, the element held, the clicks made, the value returned
    dropdown           \* one call of handle_vue_select_dropdown: the options the
                       \* page shows, value_to_select, the loop variable attempt,
                       \* the branches executed, the option clicked, the value returned

vars ==
    << master_file, input_file, master_data, kode_dp_list, processed_dps, stats,
       pc, index, attempt, filter_attempt, val_attempt, validation_status,
       validation_passed, result, final_status, check_status, poll_log,
       ticket_creation_response, xhr_listener_injected, inflight, probe,
       cell_reads, failed_substep, log, stats_before, no_data_seen, signalled,
       report_generated, exit_code, setup, dropdown, cleared, slot_age, unconfirmed,
       send_wraps, inject_calls, click, login_call >>

dataVars == << master_file, input_file, master_data, kode_dp_list >>
pageVars == << ticket_creation_response, xhr_listener_injected, send_wraps, inflight >>
attemptVars ==
    << filter_attempt, val_attempt, validation_status, validation_passed,
       check_status, poll_log, probe, cell_reads, failed_substep, cleared >>

\* window.ticket_creation_response: kind is "null" (null or undefined), "empty"
\* (a falsy JSON value such as {}) or "object" (a non-empty JSON object; code
\* is its "code" field).  origin is the index of the record whose
\* confirmation click sent the request.
NoResponse == [kind |-> "null", code |-> -1, origin |-> 0]
NoCell == [found |-> "none", text |-> <<>>]
NoProbe == [no_data |-> FALSE, cell |-> NoCell]
ZeroStats == [successful |-> 0, failed |-> 0, skipped |-> 0]
NoLogin ==
    [configured |-> TRUE, attempt |-> 0, ended |-> <<>>, gaps |-> <<>>,
     landmark |-> FALSE, url_login |-> TRUE, returned |-> "none"]
NoClick ==
    [selectors |-> FALSE, use_js |-> FALSE, attempt |-> 0, element |-> FALSE,
     clicks |-> <<>>, stales |-> 0, resolves |-> 0, returned |-> "none"]
NoDropdown ==
    [options |-> <<>>, value_to_select |-> <<>>, attempt |-> 0, branches |-> {},
     exact_failed |-> FALSE, via |-> "none", clicked |-> 0, open |-> FALSE,
     returned |-> "none"]

InitCommon ==
    /\ processed_dps = {}
    /\ stats = ZeroStats
    /\ index = 0
    /\ attempt = 0
    /\ filter_attempt = 0
    /\ val_attempt = 0
    /\ validation_status = "none"
    /\ validation_passed = FALSE
    /\ result = "none"
    /\ final_status = "none"
    /\ check_status = "none"
    /\ poll_log = <<>>
    /\ ticket_creation_response = NoResponse
    /\ xhr_listener_injected = FALSE
    /\ send_wraps = 0
    /\ inject_calls = 0
    /\ inflight = {}
    /\ probe = NoProbe
    /\ cell_reads = 0
    /\ failed_substep = "none"
    /\ cleared = FALSE
    /\ slot_age = "none"
    /\ log = <<>>
    /\ stats_before = ZeroStats
    /\ no_data_seen = "no"
    /\ unconfirmed = FALSE
    /\ signalled = -1
    /\ report_generated = FALSE
    /\ exit_code = -1

Init ==
    /\ master_file \in SUBSET Codes
    /\ input_file \in SeqsUpTo(LineTexts, MaxLines)
    /\ master_data = {}
    /\ kode_dp_list = <<>>
    /\ pc = "load_master"
    /\ setup = "running"
    /\ dropdown = NoDropdown
    /\ click = NoClick
    /\ login_call = NoLogin
    /\ InitCommon

(***************************************************************************)
(* run_automation before the item loop.                                    *)
(***************************************************************************)
\* the exit status of a failed run taken for that of a successful one
ReturnFalse_ExitZero(step) ==
    /\ pc' = "done"
    /\ exit_code' = 0
    /\ setup' = step

\* return False from run_automation (finally: cleanup), then in __main__
\* sys.exit(0 if success else 1); step is the step that failed
ReturnFalse(step) ==
    /\ pc' = "done"
    /\ exit_code' = 1
    /\ setup' = step

\* run_automation: master_data = load_master_data(); if not master_data: return False
LoadMasterData ==
    /\ pc = "load_master"
    /\ master_data' = master_file
    /\ IF master_file = {}
       THEN ReturnFalse("load_master_data")
       ELSE pc' = "read_input" /\ UNCHANGED << exit_code, setup >>
    /\ UNCHANGED << login_call, click, inject_calls, unconfirmed, slot_age, dropdown, no_data_seen, master_file, input_file, kode_dp_list, processed_dps, stats, index,
                    attempt, result, final_status, log, stats_before, signalled,
                    report_generated, attemptVars, pageVars >>

\* run_automation: kode_dp_list = read_daily_input(); if not kode_dp_list: return False
ReadDailyInput ==
    /\ pc = "read_input"
    /\ kode_dp_list' = read_daily_input(input_file)
    /\ IF kode_dp_list' = <<>>
       THEN ReturnFalse("read_daily_input")
       ELSE pc' = "login" /\ UNCHANGED << exit_code, setup >>
    /\ UNCHANGED << login_call, click, inject_calls, unconfirmed, slot_age, dropdown, no_data_seen, master_file, input_file, master_data, processed_dps, stats, index,
                    attempt, result, final_status, log, stats_before, signalled,
                    report_generated, attemptVars, pageVars >>

\* a page load: the new document has neither the hook nor the slot, and the
\* requests of the old document are gone
PageLoaded ==
    /\ xhr_listener_injected' = FALSE
    /\ send_wraps' = 0
    /\ ticket_creation_response' = NoResponse
    /\ inflight' = {}

\* the age of the slot's value after a step that leaves the slot alone or
\* sets it to null
AgeFollowsSlot ==
    slot_age' = IF ticket_creation_response' = NoResponse THEN "none" ELSE slot_age

\* run_automation: if not self.login(): return False.  The input file was
\* closed by read_daily_input and is not looked at again.
Login ==
    /\ pc = "login"
    /\ PageLoaded
    /\ AgeFollowsSlot
    /\ input_file' = <<>>
    /\ \E ok \in BOOLEAN :
          IF ok THEN pc' = "navigate" /\ UNCHANGED << exit_code, setup >>
          ELSE ReturnFalse("login")
    /\ UNCHANGED << login_call, click, inject_calls, unconfirmed, dropdown, no_data_seen, master_file, master_data, kode_dp_list, processed_dps, stats, index, attempt, result,
                    final_status, log, stats_before, signalled, report_generated,
                    attemptVars >>

\* the script without its guard `if (window.xhr_listener_injected) { return; }`
InjectNetworkListener_NoGuard(script_ok) ==
    IF script_ok
    THEN /\ xhr_listener_injected' = TRUE
         /\ ticket_creation_response' = NoResponse
         /\ send_wraps' = send_wraps + 1
         /\ UNCHANGED inflight
    ELSE UNCHANGED pageVars

\* inject_network_listener on the loaded page; script_ok is FALSE when
\* execute_script raises (the exception is logged and dropped)
InjectNetworkListener(script_ok) ==
    IF script_ok /\ ~xhr_listener_injected
    THEN /\ xhr_listener_injected' = TRUE
         /\ ticket_creation_response' = NoResponse
         /\ send_wraps' = send_wraps + 1
         /\ UNCHANGED inflight
    ELSE UNCHANGED pageVars

\* navigate_to_dp_menu: arrived is FALSE when a menu click or the arrival
\* check fails; the hook is injected only on confirmed arrival
NavigateToDpMenu(arrived, script_ok) ==
    IF arrived THEN InjectNetworkListener(script_ok) ELSE UNCHANGED pageVars

\* run_automation: if not self.navigate_to_dp_menu(): return False
Navigate ==
    /\ pc = "navigate"
    /\ \E arrived \in BOOLEAN, script_ok \in BOOLEAN :
          /\ NavigateToDpMenu(arrived, script_ok)
          /\ AgeFollowsSlot
          /\ IF arrived
             THEN pc' = "loop_init" /\ setup' = "ok" /\ UNCHANGED exit_code
             ELSE ReturnFalse("navigate_to_dp_menu")
    /\ UNCHANGED << login_call, click, inject_calls, unconfirmed, dropdown, no_data_seen, dataVars, processed_dps, stats, index, attempt, result,
                    final_status, log, stats_before, signalled, report_generated,
                    attemptVars >>

\* run_automation: self.processed_dps.clear(); total_items = len(kode_dp_list)
LoopInit ==
    /\ pc = "loop_init"
    /\ processed_dps' = {}
    /\ pc' = "loop_head"
    /\ UNCHANGED << login_call, click, inject_calls, unconfirmed, slot_age, setup, dropdown, no_data_seen, dataVars, stats, index, attempt, result, final_status, log,
                    stats_before, signalled, report_generated, exit_code,
                    attemptVars, pageVars >>

total_items == Len(kode_dp_list)
kode_dp_value == kode_dp_list[index]

(***************************************************************************)
(* The item loop of run_automation.                                        *)
(***************************************************************************)
\* for index, kode_dp_value in enumerate(kode_dp_list, 1)
LoopHead ==
    /\ pc = "loop_head"
    /\ IF index < total_items
       THEN /\ index' = index + 1
            /\ log' = <<>>
            /\ stats_before' = stats
            /\ final_status' = "none"
            /\ no_data_seen' = "no"
            /\ unconfirmed' = FALSE
            /\ pc' = "check_item"
       ELSE /\ pc' = "report"
            /\ UNCHANGED << index, log, stats_before, final_status, no_data_seen,
                            unconfirmed >>
    /\ UNCHANGED << login_call, click, inject_calls, slot_age, setup, dropdown, dataVars, processed_dps, stats, attempt, result,
                    signalled, report_generated, exit_code, attemptVars, pageVars >>

Bump(field) == [stats EXCEPT ![field] = @ + 1]

\* the retry loop left for the next item, the counters not updated
AfterRetryLoop_NextItem == "loop_head"

\* the statement after the retry loop: the if / elif / else on final_status
AfterRetryLoop == "record_outcome"

\* the test for an already processed code left out
AlreadyProcessed_Never(code) == FALSE

\* if kode_dp_value in self.processed_dps
AlreadyProcessed(code) == code \in processed_dps

\* the test against the reference table left out
InMasterData_Always(code) == TRUE

\* the negation of: if kode_dp_value not in master_data
InMasterData(code) == code \in master_data

\* the two skip tests at the top of the loop body, else final_status = "FAIL"
\* and the retry loop starts
CheckItem ==
    /\ pc = "check_item"
    /\ IF AlreadyProcessed(kode_dp_value)
       THEN /\ stats' = Bump("skipped")
            /\ log' = <<"SKIP_PROCESSED">>
            /\ pc' = "loop_head"
            /\ UNCHANGED << final_status, attempt >>
       ELSE IF ~InMasterData(kode_dp_value)
       THEN /\ stats' = Bump("skipped")
            /\ log' = <<"SKIP_NOT_IN_MASTER">>
            /\ pc' = "loop_head"
            /\ UNCHANGED << final_status, attempt >>
       ELSE /\ final_status' = "FAIL"
            /\ attempt' = 0
            /\ pc' = IF 0 < MAX_RETRIES THEN "attempt" ELSE AfterRetryLoop
            /\ UNCHANGED << stats, log >>
    /\ UNCHANGED << login_call, click, inject_calls, unconfirmed, slot_age, setup, dropdown, no_data_seen, dataVars, processed_dps, index, result, stats_before, signalled,
                    report_generated, exit_code, attemptVars, pageVars >>

(***************************************************************************)
(* process_ticket_creation, one attempt at a record.                       *)
(***************************************************************************)
\* the locals of process_ticket_creation and of the functions it calls are
\* gone once its result has been used: they are put back to their initial values
ResetLocals ==
    /\ filter_attempt' = 0
    /\ val_attempt' = 0
    /\ validation_status' = "none"
    /\ validation_passed' = FALSE
    /\ check_status' = "none"
    /\ poll_log' = <<>>
    /\ probe' = NoProbe
    /\ cell_reads' = 0
    /\ failed_substep' = "none"
    /\ cleared' = FALSE

\* process_ticket_creation returns r to the retry loop
Return(r) ==
    /\ result' = r
    /\ log' = Append(log, r)
    /\ pc' = "attempt_result"

\* for attempt in range(MAX_RETRIES): result = process_ticket_creation(...)
StartAttempt ==
    /\ pc = "attempt"
    /\ pc' = "dd_city"
    /\ UNCHANGED << login_call, click, inject_calls, unconfirmed, slot_age, setup, dropdown, no_data_seen, dataVars, processed_dps, stats, index, attempt, final_status, log,
                    result, stats_before, signalled, report_generated, exit_code,
                    attemptVars, pageVars >>

DropdownStages == <<"dd_city", "dd_rk", "dd_dp", "locate_filter">>

\* the three handle_vue_select_dropdown calls: city, rk, dp
SelectDropdown ==
    /\ \E k \in 1..3 :
          /\ pc = DropdownStages[k]
          /\ \E selected \in BOOLEAN :
                IF selected
                THEN pc' = DropdownStages[k + 1] /\ UNCHANGED << result, log, failed_substep >>
                ELSE Return("FAIL") /\ failed_substep' = DropdownStages[k]
    /\ UNCHANGED << login_call, click, inject_calls, unconfirmed, slot_age, cleared, setup, dropdown, no_data_seen, dataVars, processed_dps, stats, index, attempt, final_status,
                    stats_before, signalled, report_generated, exit_code,
                    filter_attempt, val_attempt, validation_status, validation_passed,
                    check_status, poll_log, probe, cell_reads, pageVars >>

\* filter_button = wait_for_element(...); if not filter_button: return "FAIL"
LocateFilterButton ==
    /\ pc = "locate_filter"
    /\ \E found \in BOOLEAN :
          IF found
          THEN /\ pc' = "filter_click"
               /\ validation_passed' = FALSE
               /\ filter_attempt' = 0
               /\ UNCHANGED << result, log, failed_substep >>
          ELSE /\ Return("FAIL")
               /\ failed_substep' = "locate_filter"
               /\ UNCHANGED << validation_passed, filter_attempt >>
    /\ UNCHANGED << login_call, click, inject_calls, unconfirmed, slot_age, cleared, setup, dropdown, no_data_seen, dataVars, processed_dps, stats, index, attempt, final_status,
                    stats_before, signalled, report_generated, exit_code, val_attempt,
                    validation_status, check_status, poll_log, probe, cell_reads,
                    pageVars >>

\* a filter loop without a counter: `while True`
NextFilterAttempt_Unbounded ==
    /\ filter_attempt' = filter_attempt
    /\ pc' = "filter_click"

\* `continue` of the filter loop: the next filter attempt, or the end of the loop
NextFilterAttempt ==
    /\ filter_attempt' = filter_attempt + 1
    /\ pc' = IF filter_attempt + 1 < FILTER_ATTEMPTS THEN "filter_click" ELSE "after_filter"

\* for filter_attempt in range(3): if not safe_click(filter_button): continue
ClickFilter ==
    /\ pc = "filter_click"
    /\ \E clicked \in BOOLEAN :
          IF clicked
          THEN /\ pc' = "validate"
               /\ val_attempt' = 0
               /\ cell_reads' = 0
               /\ validation_status' = "none"
               /\ UNCHANGED << filter_attempt, failed_substep >>
          ELSE /\ NextFilterAttempt
               /\ failed_substep' = "filter_click"
               /\ UNCHANGED << val_attempt, cell_reads, validation_status >>
    /\ UNCHANGED << login_call, click, inject_calls, unconfirmed, slot_age, cleared, setup, dropdown, no_data_seen, dataVars, processed_dps, stats, index, attempt, final_status, result,
                    log, stats_before, signalled, report_generated, exit_code,
                    validation_passed, check_status, poll_log, probe, pageVars >>

(***************************************************************************)
(* validate_filter_result.                                                 *)
(***************************************************************************)
\* WebElement.text is the rendered text of the cell, without surrounding
\* whitespace; the page may show any of these in the first row's code cell
CellTexts == {A1, A2, A10}

\* what one attempt finds: "none" (wait_for_element returned None), "raise"
\* (reading the cell raised, e.g. a stale reference) or "text"
CellOutcomes ==
    {NoCell, [found |-> "raise", text |-> <<>>]}
        \cup {[found |-> "text", text |-> t] : t \in CellTexts}

\* the result cell read before the "no data" indicator is looked for
ValidateAttempt_CellFirst(no_data, cell, expected_kode_dp, att) ==
    IF cell.found = "text"
    THEN IF Strip(cell.text) = expected_kode_dp THEN "MATCH" ELSE "MISMATCH"
    ELSE IF no_data THEN "NO_DATA"
    ELSE IF att < VALIDATE_ATTEMPTS - 1 THEN "retry" ELSE "VALIDATION_FAILED"

\* one iteration of the attempt loop of validate_filter_result: the status it
\* returns, or "retry" when the loop goes on
ValidateAttempt(no_data, cell, expected_kode_dp, att) ==
    IF no_data THEN "NO_DATA"
    ELSE IF cell.found = "text"
    THEN IF Strip(cell.text) = expected_kode_dp THEN "MATCH" ELSE "MISMATCH"
    ELSE IF att < VALIDATE_ATTEMPTS - 1 THEN "retry" ELSE "VALIDATION_FAILED"

\* validation_result, validation_status = validate_filter_result(kode_dp_value)
ValidateFilterResult ==
    /\ pc = "validate"
    /\ \E no_data \in BOOLEAN, cell \in CellOutcomes :
          LET status == ValidateAttempt(no_data, cell, kode_dp_value, val_attempt)
          IN  /\ probe' = [no_data |-> no_data, cell |-> cell]
              /\ cell_reads' =
                    IF ~no_data /\ cell.found = "text" THEN cell_reads + 1 ELSE cell_reads
              /\ no_data_seen' = IF status = "NO_DATA" THEN "attempt" ELSE no_data_seen
              /\ IF status = "retry"
                 THEN /\ val_attempt' = val_attempt + 1
                      /\ UNCHANGED << validation_status, pc >>
                 ELSE /\ validation_status' = status
                      /\ pc' = "after_validate"
                      /\ UNCHANGED val_attempt
    /\ UNCHANGED << login_call, click, inject_calls, unconfirmed, slot_age, cleared, setup, dropdown, dataVars, processed_dps, stats, index, attempt, final_status, result,
                    log, stats_before, signalled, report_generated, exit_code,
                    filter_attempt, validation_passed, check_status, poll_log,
                    failed_substep, pageVars >>

\* NO_DATA handled like MISMATCH: the filter loop goes on
EndsAttempt_Never(status) == FALSE

\* if validation_status == "NO_DATA": return "FAIL"
EndsAttempt(status) == status = "NO_DATA"

\* the dispatch on validation_status inside the filter loop; a status that
\* makes the loop go on is not read again, and is dropped with the
\* validator's locals
AfterValidate ==
    /\ pc = "after_validate"
    /\ IF EndsAttempt(validation_status)
       THEN /\ Return("FAIL")
            /\ UNCHANGED << validation_passed, filter_attempt, val_attempt,
                            validation_status, probe, cell_reads >>
       ELSE IF validation_status = "MATCH"
       THEN /\ validation_passed' = TRUE
            /\ pc' = "after_filter"
            /\ UNCHANGED << filter_attempt, result, log, val_attempt,
                            validation_status, probe, cell_reads >>
       ELSE /\ NextFilterAttempt
            /\ val_attempt' = 0
            /\ validation_status' = "none"
            /\ probe' = NoProbe
            /\ cell_reads' = 0
            /\ UNCHANGED << validation_passed, result, log >>
    /\ UNCHANGED << login_call, click, inject_calls, unconfirmed, slot_age, cleared, setup, dropdown, no_data_seen, dataVars, processed_dps, stats, index, attempt, final_status,
                    stats_before, signalled, report_generated, exit_code,
                    check_status, poll_log, failed_substep, pageVars >>

\* the test after the filter loop left out
FilterValidated_Always == TRUE

\* the test after the filter loop
FilterValidated == validation_passed

\* if not validation_passed: return "FAIL"
AfterFilter ==
    /\ pc = "after_filter"
    /\ IF FilterValidated
       THEN pc' = "create_icon" /\ UNCHANGED << result, log >>
       ELSE Return("FAIL")
    /\ UNCHANGED << login_call, click, inject_calls, unconfirmed, slot_age, setup, dropdown, no_data_seen, dataVars, processed_dps, stats, index, attempt, final_status,
                    stats_before, signalled, report_generated, exit_code,
                    attemptVars, pageVars >>

ClickStages == <<"create_icon", "final_create", "clear_response">>

\* create_ticket_icon and final_create_button: locate, then safe_click;
\* either failing returns "FAIL"
ClickCreate ==
    /\ \E k \in 1..2 :
          /\ pc = ClickStages[k]
          /\ \E found \in BOOLEAN, clicked \in BOOLEAN :
                IF found /\ clicked
                THEN pc' = ClickStages[k + 1] /\ UNCHANGED << result, log, failed_substep >>
                ELSE Return("FAIL") /\ failed_substep' = ClickStages[k]
    /\ UNCHANGED << login_call, click, inject_calls, unconfirmed, slot_age, cleared, setup, dropdown, no_data_seen, dataVars, processed_dps, stats, index, attempt, final_status,
                    stats_before, signalled, report_generated, exit_code,
                    filter_attempt, val_attempt, validation_status, validation_passed,
                    check_status, poll_log, probe, cell_reads, pageVars >>

\* the statement left out: the slot keeps its value
ClearedSlot_Kept(slot) == slot

\* window.ticket_creation_response = null
ClearedSlot(slot) == NoResponse

\* execute_script("window.ticket_creation_response = null;"); a raising
\* script call is caught by the except clause of process_ticket_creation
ClearResponse ==
    /\ pc = "clear_response"
    /\ \E script_ok \in BOOLEAN :
          IF script_ok
          THEN /\ ticket_creation_response' = ClearedSlot(ticket_creation_response)
               /\ cleared' = TRUE
               /\ pc' = "confirm"
               /\ UNCHANGED << result, log >>
          ELSE /\ Return("FAIL")
               /\ UNCHANGED << ticket_creation_response, cleared >>
    /\ AgeFollowsSlot
    /\ UNCHANGED << login_call, click, send_wraps, inject_calls, unconfirmed, setup, dropdown, no_data_seen, dataVars, processed_dps, stats, index, attempt, final_status,
                    stats_before, signalled, report_generated, exit_code,
                    filter_attempt, val_attempt, validation_status, validation_passed,
                    check_status, poll_log, probe, cell_reads, failed_substep,
                    xhr_listener_injected, inflight >>

\* confirm_button: locate, then safe_click; the click makes the page send the
\* creation request, which the hook observes when it is installed
ClickConfirm ==
    /\ pc = "confirm"
    /\ \E found \in BOOLEAN, clicked \in BOOLEAN :
          IF found /\ clicked
          THEN /\ inflight' = IF xhr_listener_injected THEN inflight \cup {index} ELSE inflight
               /\ pc' = "poll"
               /\ poll_log' = <<>>
               /\ UNCHANGED << result, log, failed_substep >>
          ELSE /\ Return("FAIL")
               /\ failed_substep' = "confirm"
               /\ UNCHANGED << inflight, poll_log >>
    /\ UNCHANGED << login_call, click, send_wraps, inject_calls, unconfirmed, slot_age, cleared, setup, dropdown, no_data_seen, dataVars, processed_dps, stats, index, attempt, final_status,
                    stats_before, signalled, report_generated, exit_code,
                    filter_attempt, val_attempt, validation_status, validation_passed,
                    check_status, probe, cell_reads, ticket_creation_response,
                    xhr_listener_injected >>

(***************************************************************************)
(* The page: the hook stores the answer of a creation request.             *)
(***************************************************************************)
\* every value of response.get("code") other than 200 takes the same branch
\* (None included, as for the hook's parse-error marker): one stands for all
OtherCodes == {500}

\* what the load listener stores for the request sent by record o
StoredResponses(o) ==
    {[kind |-> "object", code |-> c, origin |-> o] : c \in {HTTP_OK} \cup OtherCodes}
        \cup {[kind |-> "empty", code |-> -1, origin |-> o]}

LoopStages ==
    {"loop_head", "check_item", "attempt", "dd_city", "dd_rk", "dd_dp", "locate_filter",
     "filter_click", "validate", "after_validate", "after_filter", "create_icon",
     "final_create", "clear_response", "confirm", "poll", "attempt_result",
     "record_outcome", "pause"}

\* the 'load' listener added by the wrapped XMLHttpRequest.send
ResponseArrives ==
    /\ pc \in LoopStages \cup {"page"}
    /\ \E o \in inflight :
          /\ inflight' = inflight \ {o}
          /\ \E r \in StoredResponses(o) : ticket_creation_response' = r
    /\ slot_age' = IF cleared THEN "new" ELSE "old"
    /\ UNCHANGED << login_call, click, send_wraps, inject_calls, unconfirmed, setup, dropdown, no_data_seen, dataVars, processed_dps, stats, pc, index, attempt, final_status,
                    result, log, stats_before, signalled, report_generated, exit_code,
                    attemptVars, xhr_listener_injected >>

(***************************************************************************)
(* check_ticket_creation_status.                                           *)
(***************************************************************************)
\* `if response:` of Python on the value execute_script returns
Truthy(response) == response.kind = "object"

\* any response taken as a success, its code not looked at
InterpretResponse_CodeIgnored(response) ==
    IF ~Truthy(response) THEN "continue" ELSE "SUCCESS"

\* the body of the polling loop on one value read from the slot: "continue"
\* or the status returned
InterpretResponse(response) ==
    IF ~Truthy(response) THEN "continue"
    ELSE IF response.code = HTTP_OK THEN "SUCCESS"
    ELSE "FAIL"

\* check_ticket_creation_status returned status
CheckReturns(status) ==
    /\ check_status' = status
    /\ unconfirmed' = (unconfirmed \/ status = "TIMEOUT")
    /\ Return(status)

\* execute_script raises: the exception leaves check_ticket_creation_status
\* and is caught by process_ticket_creation: except Exception: return "FAIL"
CheckRaises ==
    /\ check_status' = "RAISED"
    /\ unconfirmed' = TRUE
    /\ Return("FAIL")

\* return self.check_ticket_creation_status(): one pass of its while loop.
\* The deadline is at least one poll away and at most MaxPolls polls away.
CheckTicketCreationStatus ==
    /\ pc = "poll"
    /\ \/ /\ Len(poll_log) >= 1
          /\ CheckReturns("TIMEOUT")
          /\ UNCHANGED poll_log
       \/ /\ Len(poll_log) < MaxPolls
          /\ \E script_ok \in BOOLEAN :
                IF ~script_ok
                THEN CheckRaises /\ UNCHANGED poll_log
                ELSE LET response == ticket_creation_response
                         status == InterpretResponse(response)
                     IN  /\ poll_log' = Append(poll_log, response)
                         /\ IF status = "continue"
                            THEN UNCHANGED << check_status, unconfirmed, result, log, pc >>
                            ELSE CheckReturns(status)
    /\ UNCHANGED << login_call, click, inject_calls, slot_age, cleared, setup, dropdown, no_data_seen, dataVars, processed_dps, stats, index, attempt, final_status,
                    stats_before, signalled, report_generated, exit_code,
                    filter_attempt, val_attempt, validation_status, validation_passed,
                    probe, cell_reads, failed_substep, pageVars >>

(***************************************************************************)
(* The retry policy and the counters.                                      *)
(***************************************************************************)
\* handle_page_refresh_and_navigation: the value it returns.  refreshed is
\* FALSE when driver.refresh() raises, and then the page is as it was.
HandlePageRefreshAndNavigation(refreshed, arrived, script_ok) ==
    IF ~refreshed THEN UNCHANGED pageVars
    ELSE IF arrived
    THEN /\ xhr_listener_injected' = script_ok
         /\ send_wraps' = IF script_ok THEN 1 ELSE 0
         /\ ticket_creation_response' = NoResponse
         /\ inflight' = {}
    ELSE PageLoaded

\* a retry test that also refreshes after the last attempt
RetriesLeft_OffByOne == attempt < MAX_RETRIES

\* if attempt < config.MAX_RETRIES - 1
RetriesLeft == attempt < MAX_RETRIES - 1

\* for attempt in range(config.MAX_RETRIES): the next pass, or the end of the loop
NextAttempt ==
    /\ attempt' = attempt + 1
    /\ pc' = IF attempt + 1 < MAX_RETRIES THEN "attempt" ELSE AfterRetryLoop

\* a loop that breaks on SUCCESS only
Terminal_OnlySuccess(r) == r = "SUCCESS"

\* the results that leave the retry loop with break
Terminal(r) == r \in {"SUCCESS", "TIMEOUT"}

\* the body of the retry loop after process_ticket_creation returned
AttemptResult ==
    /\ pc = "attempt_result"
    /\ IF Terminal(result)
       THEN /\ final_status' = result
            /\ pc' = AfterRetryLoop
            /\ UNCHANGED << attempt, log, pageVars >>
       ELSE IF RetriesLeft
       THEN \E refreshed \in BOOLEAN, arrived \in BOOLEAN, script_ok \in BOOLEAN :
               /\ HandlePageRefreshAndNavigation(refreshed, arrived, script_ok)
               /\ IF refreshed /\ arrived
                  THEN /\ log' = Append(log, "REFRESH_OK")
                       /\ NextAttempt
                  ELSE /\ log' = Append(log, "REFRESH_FAILED")
                       /\ pc' = AfterRetryLoop
                       /\ UNCHANGED attempt
               /\ UNCHANGED final_status
       ELSE /\ NextAttempt
            /\ UNCHANGED << final_status, log, pageVars >>
    /\ ResetLocals
    /\ slot_age' = IF ticket_creation_response' = NoResponse THEN "none" ELSE "old"
    /\ no_data_seen' = IF no_data_seen = "attempt" THEN "record" ELSE no_data_seen
    /\ UNCHANGED << login_call, click, inject_calls, unconfirmed, setup, dropdown, dataVars, processed_dps, stats, index, result, stats_before,
                    signalled, report_generated, exit_code >>

\* the counter final_status selects
Bucket(status) ==
    IF status = "SUCCESS" THEN "successful"
    ELSE IF status = "TIMEOUT" THEN "skipped"
    ELSE "failed"

\* `if` in place of `elif`: a SUCCESS also falls into the final else
CountOutcome_ElifDropped(status) ==
    IF status = "SUCCESS"
    THEN [stats EXCEPT !.successful = @ + 1, !.failed = @ + 1]
    ELSE Bump(Bucket(status))

\* the counters after the if / elif / else on final_status
CountOutcome(status) == Bump(Bucket(status))

\* the code marked as processed whenever the retry loop ended with break
MarkProcessed_OnTimeoutToo(status) ==
    IF status \in {"SUCCESS", "TIMEOUT"} THEN processed_dps \cup {kode_dp_value}
    ELSE processed_dps

\* self.processed_dps.add(kode_dp_value), in the SUCCESS branch only
MarkProcessed(status) ==
    IF status = "SUCCESS" THEN processed_dps \cup {kode_dp_value} ELSE processed_dps

\* if final_status == "SUCCESS": ... elif final_status == "TIMEOUT": ... else: ...
RecordOutcome ==
    /\ pc = "record_outcome"
    /\ stats' = CountOutcome(final_status)
    /\ processed_dps' = MarkProcessed(final_status)
    /\ pc' = "pause"
    /\ attempt' = 0
    /\ result' = "none"
    /\ UNCHANGED << login_call, click, inject_calls, unconfirmed, slot_age, setup, dropdown, no_data_seen, dataVars, index, final_status, log, stats_before,
                    signalled, report_generated, exit_code, attemptVars, pageVars >>

\* time.sleep(1) at the end of the loop body
Pause ==
    /\ pc = "pause"
    /\ pc' = "loop_head"
    /\ UNCHANGED << login_call, click, inject_calls, unconfirmed, slot_age, setup, dropdown, no_data_seen, dataVars, processed_dps, stats, index, attempt, final_status, result,
                    log, stats_before, signalled, report_generated, exit_code,
                    attemptVars, pageVars >>

\* the process ends with status code: the finally clauses quit the browser
\* (the page is gone) and the locals of the run are gone with the process;
\* the counters, the processed codes and the loop index stay as the run left them
ProcessEnds(code) ==
    /\ pc' = "done"
    /\ exit_code' = code
    /\ PageLoaded
    /\ AgeFollowsSlot
    /\ ResetLocals
    /\ attempt' = 0
    /\ result' = "none"
    /\ final_status' = "none"
    /\ log' = <<>>
    /\ stats_before' = stats
    /\ no_data_seen' = "no"
    /\ unconfirmed' = FALSE
    /\ UNCHANGED << dataVars, processed_dps, stats, index, setup, dropdown, inject_calls,
                    click, login_call >>

\* self.generate_final_report(total_items); return True; then sys.exit(0)
GenerateFinalReport ==
    /\ pc = "report"
    /\ report_generated' = TRUE
    /\ ProcessEnds(0)
    /\ UNCHANGED signalled

(***************************************************************************)
(* The interrupt.  main installs signal_handler for SIGINT and SIGTERM, so *)
(* a signal raises SystemExit(0) in the main thread (never                 *)
(* KeyboardInterrupt: the clause `except KeyboardInterrupt: break` of the  *)
(* item loop is not reachable).  SystemExit is not an Exception: it passes *)
(* every `except Exception` and ends the process after the finally         *)
(* clauses.  When the signal lands inside a helper's try with a bare       *)
(* `except:` (wait_for_element, safe_click, wait_for_page_load, the        *)
(* dropdown handler) the exception is caught there: the sub-step fails, as *)
(* it may at any time, and the run goes on; that is a stuttering step of   *)
(* this model.                                                             *)
(***************************************************************************)
\* signal_handler: sys.exit(0), raised where the main thread is
SignalHandler ==
    /\ pc \in LoopStages
    /\ signalled = -1
    /\ signalled' = index
    /\ ProcessEnds(0)
    /\ UNCHANGED report_generated

Next ==
    \/ LoadMasterData
    \/ ReadDailyInput
    \/ Login
    \/ Navigate
    \/ LoopInit
    \/ LoopHead
    \/ CheckItem
    \/ StartAttempt
    \/ SelectDropdown
    \/ LocateFilterButton
    \/ ClickFilter
    \/ ValidateFilterResult
    \/ AfterValidate
    \/ AfterFilter
    \/ ClickCreate
    \/ ClearResponse
    \/ ClickConfirm
    \/ ResponseArrives
    \/ CheckTicketCreationStatus
    \/ AttemptResult
    \/ RecordOutcome
    \/ Pause
    \/ GenerateFinalReport
    \/ SignalHandler

Spec == Init /\ [][Next]_vars

\* the steps of the main thread: a sequential program whose every statement
\* returns or raises (waits carry timeouts, sleeps are finite), so that it
\* always takes its next step.  Answers of the server and signals are the
\* environment's: nothing obliges them to happen.
MainThread ==
    \/ LoadMasterData
    \/ ReadDailyInput
    \/ Login
    \/ Navigate
    \/ LoopInit
    \/ LoopHead
    \/ CheckItem
    \/ StartAttempt
    \/ SelectDropdown
    \/ LocateFilterButton
    \/ ClickFilter
    \/ ValidateFilterResult
    \/ AfterValidate
    \/ AfterFilter
    \/ ClickCreate
    \/ ClearResponse
    \/ ClickConfirm
    \/ CheckTicketCreationStatus
    \/ AttemptResult
    \/ RecordOutcome
    \/ Pause
    \/ GenerateFinalReport

SpecLive == Spec /\ WF_vars(MainThread)

(***************************************************************************)
(* The item loop on its own, given any item sequence: the state after      *)
(* login and navigation, with a work list in which a code may reappear.    *)
(***************************************************************************)
InitLoop ==
    /\ master_file \in SUBSET Codes \ {{}}
    /\ master_data = master_file
    /\ input_file = <<>>
    /\ kode_dp_list \in SeqsUpTo(Codes, MaxItems) \ {<<>>}
    /\ pc = "loop_init"
    /\ setup = "ok"
    /\ dropdown = NoDropdown
    /\ click = NoClick
    /\ login_call = NoLogin
    /\ InitCommon

NextLoop ==
    \/ LoopInit
    \/ LoopHead
    \/ CheckItem
    \/ StartAttempt
    \/ SelectDropdown
    \/ LocateFilterButton
    \/ ClickFilter
    \/ ValidateFilterResult
    \/ AfterValidate
    \/ AfterFilter
    \/ ClickCreate
    \/ ClearResponse
    \/ ClickConfirm
    \/ ResponseArrives
    \/ CheckTicketCreationStatus
    \/ AttemptResult
    \/ RecordOutcome
    \/ Pause
    \/ GenerateFinalReport
    \/ SignalHandler

SpecLoop == InitLoop /\ [][NextLoop]_vars

(***************************************************************************)
(* handle_vue_select_dropdown on its own: one call, for any short option   *)
(* list and any target.  The page is the environment: whether an element   *)
(* is located in time and whether a click or a key press goes through is   *)
(* chosen nondeterministically.                                            *)
(***************************************************************************)
\* the variables of the run, which a call of a helper on its own leaves alone
runVars ==
    << dataVars, processed_dps, stats, index, attempt, final_status, result, log,
       stats_before, no_data_seen, signalled, report_generated, exit_code, setup,
       slot_age, unconfirmed, inject_calls, attemptVars, pageVars >>

\* XPath normalize-space(): leading and trailing whitespace removed, every
\* inner run of whitespace replaced by one space
RECURSIVE CollapseSpaces(_)
CollapseSpaces(s) ==
    IF Len(s) < 2 THEN s
    ELSE IF IsSpace(s[1]) /\ IsSpace(s[2]) THEN CollapseSpaces(Tail(s))
    ELSE IF IsSpace(s[1]) THEN <<" ">> \o CollapseSpaces(Tail(s))
    ELSE <<s[1]>> \o CollapseSpaces(Tail(s))

NormalizeSpace(s) == CollapseSpaces(Strip(s))

\* XPath contains(s, t)
Contains(s, t) ==
    \E i \in 1..(Len(s) - Len(t) + 1) : SubSeq(s, i, i + Len(t) - 1) = t

\* the exact-match test written with contains()
ExactMatch_Contains(option, value_to_select) ==
    Contains(NormalizeSpace(option), value_to_select)

\* exact_match_xpath: li[normalize-space()='{value_to_select}']
ExactMatch(option, value_to_select) == NormalizeSpace(option) = value_to_select

\* contains_xpath: li[contains(normalize-space(), '{value_to_select}')]
ContainsMatch(option, value_to_select) ==
    Contains(NormalizeSpace(option), value_to_select)

\* the texts of the options a dropdown may show
OptionTexts == {A1, <<" ">> \o A1 \o <<" ">>, A10, A2}

\* the element an XPath query yields is the first match in document order;
\* 0 when no option matches
FirstMatch(I) == IF I = {} THEN 0 ELSE CHOOSE i \in I : \A j \in I : i <= j

\* the options that match exact_match_xpath
ExactMatches ==
    {i \in 1..Len(dropdown.options) :
        ExactMatch(dropdown.options[i], dropdown.value_to_select)}

\* the options that match contains_xpath
ContainsMatches ==
    {i \in 1..Len(dropdown.options) :
        ContainsMatch(dropdown.options[i], dropdown.value_to_select)}

InitDropdown ==
    /\ master_file = {}
    /\ input_file = <<>>
    /\ master_data = {}
    /\ kode_dp_list = <<>>
    /\ pc = "sel_input"
    /\ setup = "ok"
    /\ click = NoClick
    /\ login_call = NoLogin
    /\ \E options \in SeqsUpTo(OptionTexts, MaxOptions), value_to_select \in Codes :
          dropdown = [NoDropdown EXCEPT !.options = options,
                                        !.value_to_select = value_to_select]
    /\ InitCommon

\* the call returns value
SelReturn(d, value) ==
    /\ dropdown' = [d EXCEPT !.returned = value]
    /\ pc' = "sel_done"

\* for attempt in range(max_retries): the next pass, or return False
SelNextAttempt(d) ==
    IF d.attempt + 1 < DROPDOWN_RETRIES
    THEN /\ dropdown' = [d EXCEPT !.attempt = @ + 1]
         /\ pc' = "sel_input"
    ELSE SelReturn([d EXCEPT !.attempt = @ + 1], "False")

\* send_keys(Keys.ESCAPE): the open list is closed when the key press went
\* through, and stays as it was when it raised (the exception is swallowed)
SelEscape(d, escaped) == [d EXCEPT !.open = @ /\ ~escaped]

\* the input located, focused (which opens the list), cleared and the target
\* typed; a missing input is `continue`; an exception before or after the
\* click on the input goes to except Exception, which sends ESCAPE only to an
\* input it could locate again
SelTypeTarget ==
    /\ pc = "sel_input"
    /\ \E found \in BOOLEAN, opened \in BOOLEAN, typed \in BOOLEAN :
          IF ~found
          THEN SelNextAttempt(dropdown)
          ELSE IF opened /\ typed
          THEN /\ dropdown' = [dropdown EXCEPT !.open = TRUE]
               /\ pc' = "sel_exact"
          ELSE \E relocated \in BOOLEAN, escaped \in BOOLEAN :
                  SelNextAttempt(SelEscape([dropdown EXCEPT !.open = @ \/ opened],
                                           relocated /\ escaped))
    /\ UNCHANGED << runVars, click, login_call >>

\* option = wait_for_element([exact_match_xpath]); if option and
\* safe_click(option): return True
SelExactBranch ==
    /\ pc = "sel_exact"
    /\ LET option == FirstMatch(ExactMatches)
           d == [dropdown EXCEPT !.branches = @ \cup {"exact"}]
       IN  \E located \in BOOLEAN, clicked \in BOOLEAN :
              IF option # 0 /\ located /\ clicked
              THEN SelReturn([d EXCEPT !.clicked = option, !.via = "exact",
                                       !.open = FALSE], "True")
              ELSE /\ dropdown' = [d EXCEPT !.exact_failed = @ \/ option # 0]
                   /\ pc' = "sel_contains"
    /\ UNCHANGED << runVars, click, login_call >>

\* option = wait_for_element([contains_xpath]); if option and
\* safe_click(option): return True
SelContainsBranch ==
    /\ pc = "sel_contains"
    /\ LET option == FirstMatch(ContainsMatches)
           d == [dropdown EXCEPT !.branches = @ \cup {"contains"}]
       IN  \E located \in BOOLEAN, clicked \in BOOLEAN :
              IF option # 0 /\ located /\ clicked
              THEN SelReturn([d EXCEPT !.clicked = option, !.via = "contains",
                                       !.open = FALSE], "True")
              ELSE /\ dropdown' = d
                   /\ pc' = "sel_keyboard"
    /\ UNCHANGED << runVars, click, login_call >>

\* send_keys(ARROW_DOWN), send_keys(ENTER), return True: the widget takes its
\* own top suggestion, whichever that is; when a key press raises, ESCAPE
\* (which may raise too, swallowed) and the next pass
SelKeyboardBranch ==
    /\ pc = "sel_keyboard"
    /\ LET d == [dropdown EXCEPT !.branches = @ \cup {"keyboard"}]
       IN  \E pressed \in BOOLEAN, suggestion \in 0..Len(dropdown.options),
              escaped \in BOOLEAN :
              IF pressed
              THEN SelReturn([d EXCEPT !.clicked = suggestion, !.via = "keyboard",
                                       !.open = FALSE], "True")
              ELSE SelNextAttempt(SelEscape(d, escaped))
    /\ UNCHANGED << runVars, click, login_call >>

NextDropdown ==
    \/ SelTypeTarget
    \/ SelExactBranch
    \/ SelContainsBranch
    \/ SelKeyboardBranch

SpecDropdown == InitDropdown /\ [][NextDropdown]_vars

(***************************************************************************)
(* The page and inject_network_listener on their own: one loaded page on   *)
(* which the script is run any number of times, between requests and       *)
(* their answers, and which may be loaded anew.                            *)
(***************************************************************************)
\* the variables of the run, which the page leaves alone
nonPageVars ==
    << dataVars, processed_dps, stats, pc, index, attempt, final_status, result, log,
       stats_before, no_data_seen, unconfirmed, signalled, report_generated,
       exit_code, setup, dropdown, click, login_call, filter_attempt, val_attempt, validation_status,
       validation_passed, check_status, poll_log, probe, cell_reads, failed_substep >>

InitPage ==
    /\ master_file = {}
    /\ input_file = <<>>
    /\ master_data = {}
    /\ kode_dp_list = <<>>
    /\ pc = "page"
    /\ setup = "ok"
    /\ dropdown = NoDropdown
    /\ click = NoClick
    /\ login_call = NoLogin
    /\ InitCommon

\* self.inject_network_listener()
PageInject ==
    /\ pc = "page"
    /\ inject_calls < MaxInjects
    /\ inject_calls' = inject_calls + 1
    /\ \E script_ok \in BOOLEAN : InjectNetworkListener(script_ok)
    /\ AgeFollowsSlot
    /\ UNCHANGED << nonPageVars, cleared >>

\* the page sends a creation request; the wrapped send adds the load listener
PageSend ==
    /\ pc = "page"
    /\ send_wraps > 0
    /\ \E o \in 1..MaxItems : inflight' = inflight \cup {o}
    /\ UNCHANGED << nonPageVars, ticket_creation_response, xhr_listener_injected,
                    send_wraps, inject_calls, slot_age, cleared >>

\* execute_script("window.ticket_creation_response = null;") on the page
PageClear ==
    /\ pc = "page"
    /\ ticket_creation_response' = ClearedSlot(ticket_creation_response)
    /\ cleared' = TRUE
    /\ AgeFollowsSlot
    /\ UNCHANGED << nonPageVars, xhr_listener_injected, send_wraps, inject_calls,
                    inflight >>

\* driver.refresh() or driver.get(): a new document
PageReload ==
    /\ pc = "page"
    /\ PageLoaded
    /\ inject_calls' = 0
    /\ cleared' = FALSE
    /\ AgeFollowsSlot
    /\ UNCHANGED nonPageVars

NextPage ==
    \/ PageInject
    \/ PageSend
    \/ PageClear
    \/ ResponseArrives
    \/ PageReload

SpecPage == InitPage /\ [][NextPage]_vars

(***************************************************************************)
(* safe_click, one call on its own: the argument is either a list of       *)
(* selectors or an element object, use_js is either value, and every call  *)
(* on the driver ends as the page decides.                                 *)
(***************************************************************************)
\* how a call on the driver (scrollIntoView, a scripted click) can end: it
\* returns, raises StaleElementReferenceException, or raises something else
DriverOutcomes == {"ok", "stale", "error"}

\* element.click() can also raise ElementClickInterceptedException
NativeOutcomes == DriverOutcomes \cup {"intercepted"}

\* a scripted click only when use_js was asked for
UseScript_JsOnly(use_js, n) == use_js

\* `if use_js or attempt > 0`
UseScript(use_js, n) == use_js \/ n > 0

InitClick ==
    /\ InitCommon
    /\ master_file = {}
    /\ input_file = <<>>
    /\ master_data = {}
    /\ kode_dp_list = <<>>
    /\ pc = "click_locate"
    /\ setup = "ok"
    /\ dropdown = NoDropdown
    /\ login_call = NoLogin
    /\ \E selectors \in BOOLEAN, use_js \in BOOLEAN :
          click = [NoClick EXCEPT !.selectors = selectors, !.use_js = use_js]

\* `return True` / `return False`
SafeClickReturn(c, value) ==
    /\ click' = [c EXCEPT !.returned = value]
    /\ pc' = "click_done"

\* the next iteration of `for attempt in range(max_attempts)`, or the
\* `return False` after the loop
SafeClickNext(c) ==
    IF c.attempt + 1 < CLICK_ATTEMPTS
    THEN /\ click' = [c EXCEPT !.attempt = @ + 1]
         /\ pc' = "click_scroll"
    ELSE SafeClickReturn(c, "False")

\* `except StaleElementReferenceException`: the element is looked up again
\* only when the argument was selectors, else it becomes None
SafeClickStale(c) ==
    IF c.selectors
    THEN \E found \in BOOLEAN :
            LET d == [c EXCEPT !.stales = @ + 1, !.resolves = @ + 1,
                               !.element = found]
            IN IF found THEN SafeClickNext(d) ELSE SafeClickReturn(d, "False")
    ELSE SafeClickReturn([c EXCEPT !.stales = @ + 1, !.element = FALSE], "False")

\* what follows a call on the driver inside the try block
SafeClickAfter(c, outcome) ==
    CASE outcome = "ok" -> SafeClickReturn(c, "True")
      [] outcome = "stale" -> SafeClickStale(c)
      [] OTHER -> SafeClickNext(c)

\* the first line and `if not element: return False`
SafeClickLocate ==
    /\ pc = "click_locate"
    /\ \E found \in (IF click.selectors THEN BOOLEAN ELSE {TRUE}) :
          IF found
          THEN /\ click' = [click EXCEPT !.element = TRUE]
               /\ pc' = "click_scroll"
          ELSE SafeClickReturn(click, "False")
    /\ UNCHANGED << runVars, dropdown, login_call >>

\* scrollIntoView of one attempt
SafeClickScroll ==
    /\ pc = "click_scroll"
    /\ \E outcome \in DriverOutcomes :
          IF outcome = "ok"
          THEN /\ pc' = "click_click"
               /\ UNCHANGED click
          ELSE SafeClickAfter(click, outcome)
    /\ UNCHANGED << runVars, dropdown, login_call >>

\* the click of one attempt: scripted, or native
SafeClickClick ==
    /\ pc = "click_click"
    /\ IF UseScript(click.use_js, click.attempt)
       THEN \E outcome \in DriverOutcomes :
               SafeClickAfter([click EXCEPT !.clicks = Append(@,
                                  [attempt |-> click.attempt, kind |-> "script",
                                   outcome |-> outcome])], outcome)
       ELSE \E outcome \in NativeOutcomes :
               LET c == [click EXCEPT !.clicks = Append(@,
                            [attempt |-> click.attempt, kind |-> "native",
                             outcome |-> outcome])]
               IN IF outcome = "intercepted"
                  THEN /\ click' = c
                       /\ pc' = "click_fallback"
                  ELSE SafeClickAfter(c, outcome)
    /\ UNCHANGED << runVars, dropdown, login_call >>

\* `except ElementClickInterceptedException`: the scripted click
SafeClickFallback ==
    /\ pc = "click_fallback"
    /\ \E outcome \in DriverOutcomes :
          SafeClickAfter([click EXCEPT !.clicks = Append(@,
                             [attempt |-> click.attempt, kind |-> "script",
                              outcome |-> outcome])], outcome)
    /\ UNCHANGED << runVars, dropdown, login_call >>

NextClick ==
    \/ SafeClickLocate
    \/ SafeClickScroll
    \/ SafeClickClick
    \/ SafeClickFallback

SpecClick == InitClick /\ [][NextClick]_vars

(***************************************************************************)
(* login, one call on its own: the configuration is complete or not, and   *)
(* every stage of an attempt ends as the page decides.                     *)
(***************************************************************************)
InitLogin ==
    /\ InitCommon
    /\ master_file = {}
    /\ input_file = <<>>
    /\ master_data = {}
    /\ kode_dp_list = <<>>
    /\ pc = "login_config"
    /\ setup = "ok"
    /\ dropdown = NoDropdown
    /\ click = NoClick
    /\ \E configured \in BOOLEAN : login_call = [NoLogin EXCEPT !.configured = configured]

\* `return True` / `return False`
LoginReturn(c, value) ==
    /\ login_call' = [c EXCEPT !.returned = value]
    /\ pc' = "login_done"

\* time.sleep(config.RETRY_DELAY) is in the `except Exception` handler only:
\* an attempt left by `continue`, or run to the end of the try block, is
\* followed by the next one at once
SleptBeforeRetry(how) == how = "raised"

\* the attempt is over (how: "continue", "raised" or "fell_through"): the
\* next pass of `for attempt in range(3)`, or the `return False` after the loop
LoginNext(c, how) ==
    LET d == [c EXCEPT !.ended = Append(@, how)]
    IN IF c.attempt + 1 < LOGIN_ATTEMPTS
       THEN /\ login_call' = [d EXCEPT !.attempt = @ + 1,
                                       !.gaps = Append(@, SleptBeforeRetry(how))]
            /\ pc' = "login_get"
       ELSE LoginReturn(d, "False")

\* a stage of an attempt: it goes on to the stage next, leaves the attempt
\* by `continue` (a falsy result) or raises
LoginStage(outcome, next) ==
    CASE outcome = "ok" -> pc' = next /\ UNCHANGED login_call
      [] outcome = "absent" -> LoginNext(login_call, "continue")
      [] OTHER -> LoginNext(login_call, "raised")

\* if not all([LOGIN_URL, USERNAME, PASSWORD]): return False
LoginConfig ==
    /\ pc = "login_config"
    /\ IF login_call.configured
       THEN pc' = "login_get" /\ UNCHANGED login_call
       ELSE LoginReturn(login_call, "False")
    /\ UNCHANGED << runVars, dropdown, click >>

\* self.driver.get(config.LOGIN_URL), which raises on a page load timeout
LoginGet ==
    /\ pc = "login_get"
    /\ \E outcome \in {"ok", "raised"} : LoginStage(outcome, "login_loaded")
    /\ UNCHANGED << runVars, dropdown, click >>

\* if not wait_for_page_load(...): continue
LoginPageLoad ==
    /\ pc = "login_loaded"
    /\ \E outcome \in {"ok", "absent"} : LoginStage(outcome, "login_username")
    /\ UNCHANGED << runVars, dropdown, click >>

\* a field located (`if not field: continue`), cleared and typed into (either
\* of which can raise)
LoginField(stage, next) ==
    /\ pc = stage
    /\ \E outcome \in {"ok", "absent", "raised"} : LoginStage(outcome, next)
    /\ UNCHANGED << runVars, dropdown, click >>

\* if not login_button or not safe_click(login_button, ..., use_js=True): continue
LoginButton ==
    /\ pc = "login_button"
    /\ \E outcome \in {"ok", "absent"} : LoginStage(outcome, "login_landmark")
    /\ UNCHANGED << runVars, dropdown, click >>

\* the wait for the sidebar, `except: continue` when it times out; with the
\* sidebar present, return True unless the URL still contains 'login', in
\* which case the try block ends and the loop goes on
LoginLandmark ==
    /\ pc = "login_landmark"
    /\ \E landmark \in BOOLEAN, url_login \in BOOLEAN :
          LET c == [login_call EXCEPT !.landmark = landmark, !.url_login = url_login]
          IN IF ~landmark THEN LoginNext(c, "continue")
             ELSE IF ~url_login THEN LoginReturn([c EXCEPT !.ended = Append(@, "success")],
                                                 "True")
             ELSE LoginNext(c, "fell_through")
    /\ UNCHANGED << runVars, dropdown, click >>

NextLogin ==
    \/ LoginConfig
    \/ LoginGet
    \/ LoginPageLoad
    \/ LoginField("login_username", "login_password")
    \/ LoginField("login_password", "login_button")
    \/ LoginButton
    \/ LoginLandmark

SpecLogin == InitLogin /\ [][NextLogin]_vars

(***************************************************************************)
(* Properties.                                                             *)
(***************************************************************************)
Sum(st) == st.successful + st.failed + st.skipped

\* the current item has been counted and the next one has not been started
ItemCounted == pc \in {"pause", "loop_head", "report"} /\ index >= 1

\* exactly one counter is one more than when the item was started
OneBucket == \E f \in {"successful", "failed", "skipped"} : stats = [stats_before EXCEPT ![f] = @ + 1]

Results == {"SUCCESS", "FAIL", "TIMEOUT"}

\* the results of the attempts made at the current record, in order
AttemptResults == SelectSeq(log, LAMBDA e : e \in Results)

\* C1: successful + failed + skipped never exceeds the number of work-list
\* items; while the loop runs it is the number of items handled so far, each
\* item adding one to exactly one counter; and when the final report is
\* generated it equals the number of work-list items.
C1_CountersAddUp ==
    /\ Sum(stats) <= total_items
    /\ pc \in LoopStages =>
          Sum(stats) = IF pc \in {"pause", "loop_head"} THEN index ELSE index - 1
    /\ ItemCounted => OneBucket
    /\ report_generated => Sum(stats) = total_items

C1_Witness ==
    /\ report_generated
    /\ total_items = 2
    /\ stats = [successful |-> 1, failed |-> 0, skipped |-> 1]

\* C2: a TIMEOUT result is the last event of its record: no attempt and no
\* refresh follows it; the record's code is not in processed_dps, and the
\* record adds one to skipped and nothing to the other counters.
C2_TimeoutIsTerminal ==
    \A i \in 1..Len(log) :
        log[i] = "TIMEOUT" =>
            /\ i = Len(log)
            /\ pc \in {"attempt_result", "record_outcome", "pause", "loop_head", "report", "done"}
            /\ kode_dp_value \notin processed_dps
            /\ pc = "record_outcome" => final_status = "TIMEOUT"
            /\ ItemCounted => stats = [stats_before EXCEPT !.skipped = @ + 1]

C2_Witness ==
    /\ pc = "pause"
    /\ log = <<"FAIL", "REFRESH_OK", "TIMEOUT">>
    /\ stats.skipped = 1

\* every attempt made at the current record returned FAIL
AllFail ==
    /\ AttemptResults # <<>>
    /\ \A i \in 1..Len(AttemptResults) : AttemptResults[i] = "FAIL"

\* MAX_RETRIES failed attempts with a successful recovery between each two
RECURSIVE FullRetryLog(_)
FullRetryLog(n) ==
    IF n = 1 THEN <<"FAIL">> ELSE FullRetryLog(n - 1) \o <<"REFRESH_OK", "FAIL">>

\* C3 as stated: if every attempt at a record returns FAIL, exactly
\* MAX_RETRIES attempts are made, with a refresh plus re-navigation between
\* each two and none after the last, and the record is counted as failed.
C3_Original ==
    (ItemCounted /\ AllFail) =>
        /\ log = FullRetryLog(MAX_RETRIES)
        /\ stats = [stats_before EXCEPT !.failed = @ + 1]

\* C3 amended: if every attempt at a record returns FAIL, a refresh plus
\* re-navigation follows every attempt but the MAX_RETRIES-th; the attempts
\* go on while each recovery succeeds (MAX_RETRIES attempts when all do) and
\* end with the first recovery that fails; the record is counted as failed.
C3_RetryUntilExhaustedOrRecoveryFails ==
    (ItemCounted /\ AllFail) =>
        /\ stats = [stats_before EXCEPT !.failed = @ + 1]
        /\ Len(AttemptResults) <= MAX_RETRIES
        /\ \A i \in 1..Len(log) :
              /\ i % 2 = 1 => log[i] = "FAIL"
              /\ i % 2 = 0 => log[i] \in {"REFRESH_OK", "REFRESH_FAILED"}
              /\ log[i] = "REFRESH_FAILED" => i = Len(log)
              /\ log[i] = "REFRESH_OK" => i < Len(log)
        /\ log[Len(log)] = "FAIL" => Len(AttemptResults) = MAX_RETRIES

C3_Witness ==
    /\ pc = "pause"
    /\ log = FullRetryLog(MAX_RETRIES)
    /\ stats.failed = 1

AttemptStages ==
    {"dd_city", "dd_rk", "dd_dp", "locate_filter", "filter_click", "validate",
     "after_validate", "after_filter", "create_icon", "final_create",
     "clear_response", "confirm", "poll"}

\* the stages from the row-level creation trigger on
CreationStages == {"create_icon", "final_create", "clear_response", "confirm", "poll"}

\* the validator returned MATCH for the expected code in this attempt
MatchedThisAttempt ==
    /\ validation_status = "MATCH"
    /\ ~probe.no_data
    /\ probe.cell.found = "text"
    /\ probe.cell.text = kode_dp_value

\* C4 as stated: the creation trigger and every later click come only after
\* the validator returned MATCH for the expected code in the same attempt,
\* and any failed locate, click or dropdown sub-step makes the attempt return
\* FAIL with no later stage executed.
C4_Original ==
    /\ pc \in CreationStages => MatchedThisAttempt
    /\ failed_substep # "none" => pc \in {"attempt_result", "done"} /\ result = "FAIL"

\* C4 amended: the creation trigger and every later click come only after
\* the validator returned MATCH for the expected code in the same attempt;
\* a failed dropdown, a failed locate and a failed click of the creation,
\* modal or confirmation control make the attempt return FAIL at once; a
\* failed click of the filter button is retried, at most FILTER_ATTEMPTS
\* clicks in all, and when none of them leads to a MATCH the attempt returns
\* FAIL without reaching the creation trigger.
C4_CreationOnlyAfterMatch ==
    /\ pc \in CreationStages => MatchedThisAttempt
    /\ failed_substep \notin {"none", "filter_click"} =>
          pc \in {"attempt_result", "done"} /\ result = "FAIL"
    /\ pc \in {"filter_click", "validate", "after_validate"} =>
          filter_attempt < FILTER_ATTEMPTS
    /\ (pc = "after_filter" /\ validation_status # "MATCH") =>
          /\ filter_attempt = FILTER_ATTEMPTS
          /\ ~validation_passed
    /\ (pc = "attempt_result" /\ validation_status # "MATCH") =>
          result = "FAIL" /\ check_status = "none"

C4_Witness ==
    /\ pc = "poll"
    /\ failed_substep = "filter_click"
    /\ filter_attempt = 2
    /\ MatchedThisAttempt

\* C5: an interrupt signal that arrives during the item loop stops the
\* processing of further items, and the process does not end without the
\* final report having been generated for the items handled.
C5_InterruptStopsAndReports ==
    signalled # -1 =>
        /\ index = signalled
        /\ pc = "done" => report_generated

\* C6: a work-list code absent from the reference table is never attempted:
\* it is skipped, adding one to skipped and nothing to failed or successful.
C6_AbsentFromMasterIsSkipped ==
    (index >= 1 /\ kode_dp_value \notin master_data) =>
        /\ pc \in {"check_item", "loop_head", "report", "done"}
        /\ log \in {<<>>, <<"SKIP_NOT_IN_MASTER">>}
        /\ pc = "check_item" => stats = stats_before
        /\ pc \in {"loop_head", "report"} =>
              /\ log = <<"SKIP_NOT_IN_MASTER">>
              /\ stats = [stats_before EXCEPT !.skipped = @ + 1]

C6_Witness ==
    /\ pc = "loop_head"
    /\ index = 2
    /\ kode_dp_value \notin master_data
    /\ log = <<"SKIP_NOT_IN_MASTER">>
    /\ stats.skipped = stats_before.skipped + 1


Last(q) == q[Len(q)]

\* the item at index is being handled and has not been counted yet
ItemInProgress ==
    /\ index >= 1
    /\ pc \in (AttemptStages \cup {"check_item", "attempt", "attempt_result", "record_outcome"})

\* C7: every code in processed_dps is a code of the work list (one of the
\* items reached so far) and a key of the reference table, and the code of
\* an item is in processed_dps exactly from the moment its outcome is
\* recorded after an attempt that returned SUCCESS.
C7_ProcessedAreSucceededWorkItems ==
    /\ processed_dps \subseteq SeqToSet(kode_dp_list) \cap master_data
    /\ processed_dps \subseteq {kode_dp_list[i] : i \in 1..index}
    /\ ItemInProgress => kode_dp_value \notin processed_dps
    /\ ItemCounted =>
          (kode_dp_value \in processed_dps <=> (log # <<>> /\ Last(log) = "SUCCESS"))

C7_Witness ==
    /\ pc = "pause"
    /\ index = 2
    /\ processed_dps = {A1, A2}

\* C8: for any item sequence, a code already in processed_dps when it is
\* encountered is skipped (counted in skipped) without any attempt, so no
\* attempt is ever made at a processed code and every SUCCESS adds a new
\* code: the successful counter is the number of processed codes.
C8_ProcessedCodeIsSkipped ==
    /\ (index >= 1 /\ pc \in (AttemptStages \cup {"attempt", "attempt_result", "record_outcome"}))
          => kode_dp_value \notin processed_dps
    /\ stats.successful = Cardinality(processed_dps)
    /\ (ItemCounted /\ \E j \in 1..(index - 1) : kode_dp_list[j] = kode_dp_value) =>
          \/ log = <<"SKIP_PROCESSED">> /\ stats = [stats_before EXCEPT !.skipped = @ + 1]
          \/ log # <<"SKIP_PROCESSED">> /\ (kode_dp_value \in processed_dps => Last(log) = "SUCCESS")

C8_Witness ==
    /\ pc = "loop_head"
    /\ index = 2
    /\ kode_dp_list[1] = kode_dp_list[2]
    /\ log = <<"SKIP_PROCESSED">>
    /\ stats = [successful |-> 1, failed |-> 0, skipped |-> 1]

\* a stored response that is not empty
NonEmpty(r) == r.kind = "object"

\* the first non-empty response among those read, NoResponse if there is none
FirstNonEmpty(q) ==
    LET I == {i \in 1..Len(q) : NonEmpty(q[i])}
    IN  IF I = {} THEN NoResponse ELSE q[CHOOSE i \in I : \A j \in I : i <= j]

\* C9: check_ticket_creation_status polls while every response read is
\* empty, and the status it returns is SUCCESS exactly when the first
\* non-empty response read before the deadline has code 200, FAIL exactly
\* when it has another code, TIMEOUT exactly when none was read.
C9_StatusOfFirstNonEmptyResponse ==
    /\ pc = "poll" => \A i \in 1..Len(poll_log) : ~NonEmpty(poll_log[i])
    /\ check_status \in Results =>
          LET first == FirstNonEmpty(poll_log)
          IN  /\ result = check_status
              /\ Len(poll_log) >= 1
              /\ check_status = "SUCCESS" <=> (NonEmpty(first) /\ first.code = HTTP_OK)
              /\ check_status = "FAIL" <=> (NonEmpty(first) /\ first.code # HTTP_OK)
              /\ check_status = "TIMEOUT" <=> ~NonEmpty(first)

C9_Witness ==
    /\ pc = "attempt_result"
    /\ check_status = "FAIL"
    /\ Len(poll_log) = 2
    /\ poll_log[1].kind = "empty"
    /\ poll_log[2].code # HTTP_OK

\* C10: validate_filter_result returns NO_DATA exactly when a "no data"
\* indicator is visible, whatever the result cell holds; otherwise MATCH when
\* the text of the result cell equals the expected code and MISMATCH when it
\* is any other text; and VALIDATION_FAILED only after its last attempt, no
\* result cell having been read.
C10_ValidatorOutcome ==
    pc = "after_validate" =>
        /\ validation_status \in {"NO_DATA", "MATCH", "MISMATCH", "VALIDATION_FAILED"}
        /\ validation_status = "NO_DATA" <=> probe.no_data
        /\ validation_status = "MATCH" <=>
              (~probe.no_data /\ probe.cell.found = "text" /\ probe.cell.text = kode_dp_value)
        /\ validation_status = "MISMATCH" <=>
              (~probe.no_data /\ probe.cell.found = "text" /\ probe.cell.text # kode_dp_value)
        /\ validation_status = "VALIDATION_FAILED" =>
              /\ val_attempt = VALIDATE_ATTEMPTS - 1
              /\ cell_reads = 0
        /\ validation_status \in {"MATCH", "MISMATCH"} => cell_reads = 1

C10_Witness ==
    /\ pc = "after_validate"
    /\ validation_status = "NO_DATA"
    /\ probe.no_data
    /\ probe.cell.found = "text"
    /\ probe.cell.text = kode_dp_value

\* C11 as stated: once the validator has reported NO_DATA for a record, the
\* filter is not submitted again for that record (the validator is not
\* reached again and no further attempt starts), and the record is counted
\* as failed.
C11_Original ==
    no_data_seen # "no" =>
        /\ pc \notin {"attempt", "dd_city", "dd_rk", "dd_dp", "locate_filter",
                      "filter_click", "validate"}
        /\ ItemCounted => stats = [stats_before EXCEPT !.failed = @ + 1]

\* C11 amended: once the validator has reported NO_DATA in an attempt, the
\* filter is not submitted again in that attempt and the attempt returns FAIL
\* without reaching the creation trigger; that FAIL is retried as any other
\* (a later attempt at the record comes only after a FAIL and a successful
\* refresh), and the record is counted as failed when every attempt fails.
C11_NoDataEndsTheAttempt ==
    /\ no_data_seen = "attempt" =>
          /\ pc \in {"after_validate", "attempt_result"}
          /\ validation_status = "NO_DATA"
          /\ pc = "attempt_result" => result = "FAIL" /\ check_status = "none"
    /\ (no_data_seen = "record" /\ pc \in AttemptStages) =>
          /\ attempt >= 1
          /\ Last(log) = "REFRESH_OK"
    /\ (no_data_seen # "no" /\ ItemCounted /\ AllFail) =>
          stats = [stats_before EXCEPT !.failed = @ + 1]

C11_Witness ==
    /\ pc = "pause"
    /\ no_data_seen = "record"
    /\ log = <<"FAIL", "REFRESH_OK", "FAIL", "REFRESH_FAILED">>
    /\ stats.failed = stats_before.failed + 1

\* C12: records are handled strictly in work-list order: the index of the
\* record being handled never goes back and moves on one record at a time,
\* only from the head of the item loop and only when the outcome of every
\* earlier record is in the counters; and whenever an attempt is under way
\* it is at the record at index, all earlier records having been counted.
C12_ListOrder ==
    [][ /\ index' \in {index, index + 1}
        /\ index' = index + 1 => (pc = "loop_head" /\ Sum(stats) = index)
        /\ pc' \in (AttemptStages \cup {"attempt"}) =>
              /\ index' \in 1..total_items
              /\ Sum(stats') = index' - 1
      ]_vars

C12_Witness ==
    /\ index = 2
    /\ pc = "dd_city"
    /\ attempt = 1
    /\ log = <<"FAIL", "REFRESH_OK">>
    /\ stats = [successful |-> 0, failed |-> 1, skipped |-> 0]

\* the option list holds an option whose normalized text equals the target
HasExactOption ==
    \E i \in 1..Len(dropdown.options) :
        NormalizeSpace(dropdown.options[i]) = dropdown.value_to_select

\* the option clicked has the target as its normalized text
ClickedExactOption ==
    /\ dropdown.clicked \in 1..Len(dropdown.options)
    /\ NormalizeSpace(dropdown.options[dropdown.clicked]) = dropdown.value_to_select

\* C13 as stated: when the option list holds an option whose normalized text
\* equals the target, the call clicks that option through the exact-match
\* branch and neither the contains-match branch nor the keyboard branch
\* executes in the call.
C13_Original ==
    HasExactOption =>
        /\ dropdown.branches \subseteq {"exact"}
        /\ pc = "sel_done" /\ dropdown.returned = "True" =>
              (dropdown.via = "exact" /\ ClickedExactOption)

\* C13 amended: when the option list holds an option whose normalized text
\* equals the target and that option is located and clicked successfully,
\* it is the exact-match option that is clicked and neither the
\* contains-match branch nor the keyboard branch executes in the call; the
\* two fallback branches execute only after the exact-match option was not
\* located in time or its click failed (or when there is none), and they
\* may then select an option that is not the exact match.
C13_ExactMatchFirst ==
    /\ dropdown.via = "exact" => (ClickedExactOption /\ dropdown.returned = "True")
    /\ (HasExactOption /\ ~dropdown.exact_failed) =>
          /\ dropdown.branches \subseteq {"exact"}
          /\ pc \in {"sel_input", "sel_exact", "sel_done"}
          /\ dropdown.returned = "True" => dropdown.via = "exact"
    /\ (HasExactOption /\ dropdown.branches # {} /\ dropdown.branches # {"exact"}) =>
          dropdown.exact_failed
    /\ pc \in {"sel_contains", "sel_keyboard"} => "exact" \in dropdown.branches

C13_Witness ==
    /\ pc = "sel_done"
    /\ dropdown.options = <<A10, <<" ">> \o A1 \o <<" ">> >>
    /\ dropdown.value_to_select = A1
    /\ dropdown.via = "exact"
    /\ dropdown.clicked = 2
    /\ dropdown.branches = {"exact"}
    /\ dropdown.attempt = 1

\* the lines of a file, each stripped
StrippedLines(file) == [i \in 1..Len(file) |-> Strip(file[i])]

\* the entries of q that are neither blank nor comments
CodeLines(q) == SelectSeq(q, LAMBDA l : l # <<>> /\ Head(l) # "#")

\* q without the entries that repeat an earlier one
FirstSeen(q) ==
    LET RECURSIVE From(_)
        From(i) ==
            IF i > Len(q) THEN <<>>
            ELSE IF \E j \in 1..(i - 1) : q[j] = q[i] THEN From(i + 1)
            ELSE <<q[i]>> \o From(i + 1)
    IN  From(1)

\* read_daily_input has returned and its file is still in view
InputRead ==
    \/ pc = "login"
    \/ pc = "done" /\ master_data # {} /\ kode_dp_list = <<>>

\* C14: the work list read_daily_input returns is the sequence of the
\* stripped lines of the file that are not blank and do not start with "#",
\* each code kept at its first occurrence only, in file order; total_items
\* is the length of that sequence.
C14_WorkListIsDeduplicatedLines ==
    InputRead =>
        /\ kode_dp_list = FirstSeen(CodeLines(StrippedLines(input_file)))
        /\ total_items = Len(FirstSeen(CodeLines(StrippedLines(input_file))))

C14_Witness ==
    /\ pc = "login"
    /\ input_file = << A2 \o <<"\n">>, <<" ">> \o A1 \o <<" ", "\n">>, A2 \o <<"\n">> >>
    /\ kode_dp_list = <<A2, A1>>
    /\ total_items = 2

SetupSteps == {"load_master_data", "read_daily_input", "login", "navigate_to_dp_menu"}

\* C15: an item is handled only after the reference table and the work list
\* were loaded and login and the first navigation succeeded; when one of
\* these steps fails the process ends with exit status 1, no item handled
\* and every counter zero; and when the item loop has run to its end the
\* report is generated and the process ends with exit status 0, whatever
\* the counters say.
C15_SetupGatesTheLoop ==
    /\ (index >= 1 \/ pc \in LoopStages \cup {"report"}) =>
          /\ setup = "ok"
          /\ master_data # {}
          /\ kode_dp_list # <<>>
    /\ pc \in AttemptStages => kode_dp_value \in master_data
    /\ setup \in SetupSteps =>
          /\ pc = "done"
          /\ exit_code = 1
          /\ index = 0
          /\ stats = ZeroStats
          /\ ~report_generated
    /\ setup = "load_master_data" => master_data = {}
    /\ setup = "read_daily_input" => kode_dp_list = <<>>
    /\ exit_code = 1 => setup \in SetupSteps
    /\ report_generated =>
          /\ pc = "done"
          /\ exit_code = 0
          /\ index = total_items

C15_Witness ==
    /\ report_generated
    /\ exit_code = 0
    /\ total_items = 2
    /\ stats = [successful |-> 0, failed |-> 2, skipped |-> 0]

\* C16: in every attempt the slot is set to null after the click of the
\* modal's confirmation control and before the click of the final
\* confirmation control, and no poll reads the slot before that; so the
\* response a status check interprets was stored after the clear of its own
\* attempt, never before it.
C16_ClearedBeforeConfirmAndPoll ==
    /\ pc \in {"confirm", "poll"} => cleared
    /\ pc \in (AttemptStages \ {"confirm", "poll"}) => ~cleared
    /\ cleared => slot_age # "old"
    /\ poll_log # <<>> => cleared
    /\ \A i \in 1..Len(poll_log) : NonEmpty(poll_log[i]) => i = Len(poll_log)
    /\ check_status \in {"SUCCESS", "FAIL"} =>
          /\ cleared
          /\ slot_age = "new"

C16_Witness ==
    /\ pc = "attempt_result"
    /\ index = 2
    /\ check_status = "SUCCESS"
    /\ Len(poll_log) = 2
    /\ poll_log[1] = NoResponse
    /\ slot_age = "new"

\* C17: the response a record's status check interprets, and that makes the
\* record SUCCESS or FAIL, answers the creation request sent by the final
\* confirmation click of that same record; it is never the late answer to
\* the request of an earlier record.
C17_ResponseAnswersOwnRequest ==
    check_status \in {"SUCCESS", "FAIL"} => Last(poll_log).origin = index

\* C18: once an attempt at a record has clicked the final confirmation and
\* ended without a response read (the deadline passed, or the poll itself
\* raised), no further attempt is made at that record.
C18_NoRetryWhileUnconfirmed ==
    unconfirmed => pc \notin (AttemptStages \cup {"attempt"})

\* C19: whenever the final confirmation has been clicked and the slot is
\* polled, the network hook is installed in the loaded page, for every
\* record of the run.
C19_HookInstalledWhenPolling ==
    pc = "poll" => xhr_listener_injected

\* C20: however many times inject_network_listener is called within one
\* page load, the send function of the page is wrapped at most once (once
\* exactly while the guard flag is set); a call made when the hook is
\* already installed changes nothing in the page, a stored response
\* included; and a call changes the stored response only when it installs
\* the hook, setting it to empty.
C20_InjectionIsIdempotent ==
    [][ /\ send_wraps' = IF xhr_listener_injected' THEN 1 ELSE 0
        /\ inject_calls' = inject_calls + 1 =>
              /\ xhr_listener_injected => pageVars' = pageVars
              /\ ticket_creation_response' # ticket_creation_response =>
                    /\ ~xhr_listener_injected
                    /\ xhr_listener_injected'
                    /\ ticket_creation_response' = NoResponse
      ]_vars

C20_Witness ==
    /\ pc = "page"
    /\ inject_calls = MaxInjects
    /\ xhr_listener_injected
    /\ send_wraps = 1
    /\ ticket_creation_response.kind = "object"

\* C21: whenever the element reference went stale during an attempt of
\* safe_click, the element was looked up again from the selectors, and the
\* call gave up only if that lookup found nothing or the attempts ran out.
C21_StaleIsReResolved ==
    /\ click.resolves = click.stales
    /\ (pc = "click_done" /\ click.returned = "False" /\ click.stales > 0 /\ click.element)
          => click.attempt = CLICK_ATTEMPTS - 1

\* C22: safe_click runs at most CLICK_ATTEMPTS attempts and ends with True or
\* False; a native click happens only in the first attempt of a call without
\* use_js, a scripted click in every other case and right after an
\* intercepted native click; True is returned exactly when a click completed.
C22_ClickDiscipline ==
    /\ click.attempt < CLICK_ATTEMPTS
    /\ pc = "click_done" <=> click.returned \in {"True", "False"}
    /\ click.returned \in {"none", "True", "False"}
    /\ \A i \in 1..Len(click.clicks) :
          LET k == click.clicks[i]
          IN /\ k.attempt <= click.attempt
             /\ k.kind = "native" => (k.attempt = 0 /\ ~click.use_js)
             /\ k.kind = "script" =>
                   \/ click.use_js
                   \/ k.attempt > 0
                   \/ (i > 1 /\ click.clicks[i - 1].outcome = "intercepted"
                             /\ click.clicks[i - 1].attempt = k.attempt)
             /\ k.outcome = "intercepted" =>
                   IF i = Len(click.clicks)
                   THEN pc = "click_fallback"
                   ELSE /\ click.clicks[i + 1].kind = "script"
                        /\ click.clicks[i + 1].attempt = k.attempt
             /\ (i < Len(click.clicks) /\ click.clicks[i + 1].attempt = k.attempt)
                   => k.outcome = "intercepted"
             /\ k.outcome = "ok" => (i = Len(click.clicks) /\ click.returned = "True")
    /\ click.returned = "True" <=>
          (click.clicks # <<>> /\ Last(click.clicks).outcome = "ok")

\* a call without use_js whose native click was intercepted, whose scripted
\* click then failed, and whose second attempt clicked by script and returned True
C22_Witness ==
    /\ pc = "click_done"
    /\ click.returned = "True"
    /\ click.attempt = 1
    /\ Len(click.clicks) = 3
    /\ click.clicks[1].outcome = "intercepted"
    /\ click.clicks[3].kind = "script"

\* C23: handle_vue_select_dropdown makes at most DROPDOWN_RETRIES attempts,
\* and a list opened by an attempt that committed no value is closed by an
\* escape keystroke before the next attempt starts and before False is returned.
C23_ClosedOnFailure ==
    /\ dropdown.attempt <= DROPDOWN_RETRIES
    /\ (pc = "sel_input" \/ (pc = "sel_done" /\ dropdown.returned = "False"))
          => ~dropdown.open

\* C26: the loop comes back to its head for a next item only through the
\* pause at the end of the loop body, whatever happened to the item before.
C26_PauseAfterEveryItem ==
    [][(pc' = "loop_head" /\ index' >= 1 /\ index' < total_items) => pc = "pause"]_vars

\* C25: login makes at most LOGIN_ATTEMPTS attempts, the retry delay is slept
\* between every two consecutive attempts, and True is returned only from an
\* attempt that saw the landmark with a URL that no longer contains 'login'.
C25_DelayBetweenAttempts ==
    /\ login_call.attempt < LOGIN_ATTEMPTS
    /\ Len(login_call.ended) <= LOGIN_ATTEMPTS
    /\ Len(login_call.gaps) = login_call.attempt
    /\ \A i \in 1..Len(login_call.gaps) : login_call.gaps[i]
    /\ login_call.returned = "True"
          => (login_call.landmark /\ ~login_call.url_login)

\* C24: every run of run_automation ends: the loop counters stay within
\* MAX_RETRIES attempts per record, FILTER_ATTEMPTS submissions per attempt,
\* VALIDATE_ATTEMPTS reads per submission and MaxPolls polls before the
\* deadline, and the process is eventually over.
C24_RunTerminates ==
    /\ [](/\ attempt <= MAX_RETRIES
          /\ pc \in AttemptStages => attempt < MAX_RETRIES
          /\ filter_attempt <= FILTER_ATTEMPTS
          /\ pc \in {"filter_click", "validate", "after_validate"}
                => filter_attempt < FILTER_ATTEMPTS
          /\ val_attempt < VALIDATE_ATTEMPTS
          /\ Len(poll_log) <= MaxPolls)
    /\ <>(pc = "done")

\* a finished run of two records, both in the reference table, one counted
\* failed and one counted skipped (its polling reached the deadline)
C24_Witness ==
    /\ pc = "done"
    /\ report_generated
    /\ index = 2
    /\ SeqToSet(kode_dp_list) \subseteq master_data
    /\ stats = [successful |-> 0, failed |-> 1, skipped |-> 1]

====
